---- MODULE Spec2Model ----
(***************************************************************************)
(* Inventory ledger engine of the manufacturing management web app.        *)
(*                                                                         *)
(* Three operations mutate stock:                                          *)
(*   - the SQL function adjust_stock (schema.sql), one transaction with a  *)
(*     row lock on the products_stock row;                                 *)
(*   - POST /api/stock-adjust (route.ts), a sequence of independent        *)
(*     storage calls;                                                      *)
(*   - POST /api/production-runs, pre-flight reads, an insert of the run   *)
(*     record and up to three legs of independent storage calls.           *)
(* Each request is served for one user; every storage call of a request    *)
(* is one atomic step and requests interleave between their calls.         *)
(* A products_stock row is identified with the product that owns it (the   *)
(* data model keeps one row per product).                                  *)
(***************************************************************************)
EXTENDS Integers, Sequences, FiniteSets, TLC

\* ---------------------------------------------------------------- bounds
MaxDelta == 2     \* largest quantity a manual adjustment takes out
MaxBags == 1      \* largest quantity a production run submits
MaxFaults == 1    \* storage errors per behaviour
MaxLevel == 1     \* largest reorder level

\* ------------------------------------------------------------ the catalog
Users == {"u1", "u2"}

NULL == "NULL"

Products == {"fg", "fgm", "rm", "mb"}

ProductType(id) ==
    CASE id = "fg"  -> "FINISHED_GOOD"
      [] id = "fgm" -> "FINISHED_GOOD"
      [] id = "rm"  -> "RAW_MATERIAL"
      [] id = "mb"  -> "MASTER_BATCH"
      [] OTHER      -> NULL

ParentMasterBatch(id) == IF id = "fgm" THEN "mb" ELSE NULL

Machines == {"m1", "m2"}

VALID_STATUSES == {"ACTIVE", "MAINTENANCE", "RETIRED"}

VALID_SHIFTS == {"DAY", "NIGHT"}

StockRows == Products

\* --------------------------------------------------------------- the state
VARIABLES
    stock,      \* products_stock.quantity, by row
    lock,       \* holder of the row lock of each products_stock row
    ledger,     \* stock_ledger, in insertion order
    runs,       \* production_runs, in insertion order; id = position
    pc,         \* position of each request
    req,        \* the body of each request
    cur,        \* the quantity a request has read and not yet written back
    leg,        \* the production-run leg a request is working on
    runId,      \* productionRunId of a production-run request
    applied,    \* legs of a request whose balance update was executed
    resp,       \* the response returned by each request
    faults,     \* storage errors that have occurred so far
    machineStatus,  \* machines.status, by machine
    reorderLevel,   \* products.reorder_level, by product
    alerts      \* the re-order alerts the inventory page last showed

catalog == <<machineStatus, reorderLevel, alerts>>

vars == <<stock, lock, ledger, runs, pc, req, cur, leg, runId, applied, resp, faults,
          machineStatus, reorderLevel, alerts>>

MachineStatus(id) == machineStatus[id]

NoReq == [kind |-> "none"]
NoResp == [status |-> 0, error |-> "", ledger_id |-> 0, run_id |-> 0]

\* A response; ledger_id is the identity the body carries, 0 when it carries none.
ResponseWith(status, error, id) ==
    [status |-> status, error |-> error, ledger_id |-> id, run_id |-> 0]

Response(status, error) == ResponseWith(status, error, 0)

LedgerEntry(product, change, source, txid, user) ==
    [product_id |-> product, quantity_change |-> change,
     transaction_source_table |-> source, transaction_id |-> txid,
     created_by |-> user]

RECURSIVE SumChanges(_, _)
SumChanges(entries, product) ==
    IF entries = <<>> THEN 0
    ELSE (IF Head(entries).product_id = product
          THEN Head(entries).quantity_change ELSE 0)
         + SumChanges(Tail(entries), product)

LedgerSum(product) == SumChanges(ledger, product)

EntriesOf(user) == {i \in 1..Len(ledger) : ledger[i].created_by = user}

\* A storage call may fail while the fault budget lasts.
CanFail == faults < MaxFaults

\* The handler returns a response; the request stays on record.
RespondWith(p, status, error, id) ==
    /\ pc' = [pc EXCEPT ![p] = "done"]
    /\ resp' = [resp EXCEPT ![p] = ResponseWith(status, error, id)]
    /\ cur' = [cur EXCEPT ![p] = 0]
    /\ leg' = [leg EXCEPT ![p] = 0]
    /\ runId' = [runId EXCEPT ![p] = 0]

Respond(p, status, error) == RespondWith(p, status, error, 0)

Finish(p, status, error) ==
    /\ Respond(p, status, error)
    /\ UNCHANGED req

\* A body that fails validation is answered at once; only the kind of the
\* request stays on record.
Reject(p, kind, status, error) ==
    /\ Respond(p, status, error)
    /\ req' = [req EXCEPT ![p] = [kind |-> kind]]

\* json({ success: true, data: { id: productionRunId } }, 201)
RunCreated(p, id) ==
    /\ pc' = [pc EXCEPT ![p] = "done"]
    /\ resp' = [resp EXCEPT ![p] = [status |-> 201, error |-> "", ledger_id |-> 0,
                                    run_id |-> id]]
    /\ cur' = [cur EXCEPT ![p] = 0]
    /\ leg' = [leg EXCEPT ![p] = 0]
    /\ runId' = [runId EXCEPT ![p] = 0]
    /\ UNCHANGED req

Continue(p, at) ==
    /\ pc' = [pc EXCEPT ![p] = at]
    /\ UNCHANGED <<resp, req, leg, runId>>

\* Opening balances were booked through adjust_stock.
InitStock == [r \in StockRows |-> CASE r = "rm" -> 2 [] r = "mb" -> 1 [] OTHER -> 0]

InitMachineStatus == [m \in Machines |-> IF m = "m1" THEN "ACTIVE" ELSE "MAINTENANCE"]

NoAlerts == [shown |-> FALSE, items |-> {}]

InitLedger ==
    << LedgerEntry("rm", 2, "products_stock", 0, "seed"),
       LedgerEntry("mb", 1, "products_stock", 0, "seed") >>

Init ==
    /\ stock = InitStock
    /\ lock = [r \in StockRows |-> NULL]
    /\ ledger = InitLedger
    /\ runs = <<>>
    /\ pc = [p \in Users |-> "idle"]
    /\ req = [p \in Users |-> NoReq]
    /\ cur = [p \in Users |-> 0]
    /\ leg = [p \in Users |-> 0]
    /\ runId = [p \in Users |-> 0]
    /\ applied = [p \in Users |-> {}]
    /\ resp = [p \in Users |-> NoResp]
    /\ faults = 0
    /\ machineStatus = InitMachineStatus
    /\ reorderLevel = [r \in Products |-> MaxLevel]
    /\ alerts = NoAlerts

\* ============================================================ adjust_stock
AdjustProducts == {"rm", "fg"}

\* The row ids a caller may submit: the rows of these products and an id
\* that names no products_stock row.
AdjustRows == AdjustProducts \cup {"s0"}
AdjustDeltas == ((0 - MaxDelta)..1)
Adjusters == Users
Operators == {"u1"}

\* A caller invokes adjust_stock(p_product_stock_id, p_product_id, p_quantity_change).
CallAdjustStock(p) ==
    /\ pc[p] = "idle"
    /\ p \in Adjusters
    /\ \E sid \in AdjustRows, pid \in AdjustProducts, d \in AdjustDeltas \ {0} :
          req' = [req EXCEPT ![p] = [kind |-> "adjust_stock", product_stock_id |-> sid,
                                     product_id |-> pid, quantity_change |-> d]]
    /\ pc' = [pc EXCEPT ![p] = "as_select"]
    /\ UNCHANGED <<stock, lock, ledger, runs, cur, leg, runId, applied, resp, faults>>
    /\ UNCHANGED catalog

StockRowFound(sid, pid) == sid \in StockRows /\ sid = pid

\* SELECT quantity ... WHERE id = p_product_stock_id AND product_id = p_product_id FOR UPDATE
AdjustStockSelect_TableLock(p) ==
    /\ pc[p] = "as_select"
    /\ IF ~StockRowFound(req[p].product_stock_id, req[p].product_id)
       THEN /\ Finish(p, 500, "Product stock record not found")
            /\ UNCHANGED lock
       ELSE /\ \A r \in StockRows : lock[r] = NULL
            /\ lock' = [lock EXCEPT ![req[p].product_stock_id] = p]
            /\ cur' = [cur EXCEPT ![p] = stock[req[p].product_stock_id]]
            /\ Continue(p, "as_locked")
    /\ UNCHANGED <<stock, ledger, runs, applied, faults>>
    /\ UNCHANGED catalog

AdjustStockSelect(p) ==
    /\ pc[p] = "as_select"
    /\ IF ~StockRowFound(req[p].product_stock_id, req[p].product_id)
       THEN /\ Finish(p, 500, "Product stock record not found")
            /\ UNCHANGED lock
       ELSE /\ lock[req[p].product_stock_id] = NULL
            /\ lock' = [lock EXCEPT ![req[p].product_stock_id] = p]
            /\ cur' = [cur EXCEPT ![p] = stock[req[p].product_stock_id]]
            /\ Continue(p, "as_locked")
    /\ UNCHANGED <<stock, ledger, runs, applied, faults>>
    /\ UNCHANGED catalog

AdjustStockRejects(qty, change) == qty + change < 0

\* The negative-stock check, the UPDATE, the INSERT and the commit.
AdjustStockCommit_KeepsLock(p) ==
    /\ pc[p] = "as_locked"
    /\ LET sid == req[p].product_stock_id
           d == req[p].quantity_change
       IN /\ lock' = IF AdjustStockRejects(cur[p], d)
                     THEN lock ELSE [lock EXCEPT ![sid] = NULL]
          /\ IF AdjustStockRejects(cur[p], d)
             THEN /\ Finish(p, 500, "Insufficient stock")
                  /\ UNCHANGED <<stock, ledger, applied>>
             ELSE /\ stock' = [stock EXCEPT ![sid] = stock[sid] + d]
                  /\ ledger' = Append(ledger,
                        LedgerEntry(req[p].product_id, d, "products_stock", 0, p))
                  /\ applied' = [applied EXCEPT ![p] = {sid}]
                  /\ RespondWith(p, 200, "", Len(ledger) + 1)
                  /\ UNCHANGED req
    /\ UNCHANGED <<runs, faults>>
    /\ UNCHANGED catalog

AdjustStockCommit(p) ==
    /\ pc[p] = "as_locked"
    /\ LET sid == req[p].product_stock_id
           d == req[p].quantity_change
       IN /\ lock' = [lock EXCEPT ![sid] = NULL]
          /\ IF AdjustStockRejects(cur[p], d)
             THEN /\ Finish(p, 500, "Insufficient stock")
                  /\ UNCHANGED <<stock, ledger, applied>>
             ELSE /\ stock' = [stock EXCEPT ![sid] = stock[sid] + d]
                  /\ ledger' = Append(ledger,
                        LedgerEntry(req[p].product_id, d, "products_stock", 0, p))
                  /\ applied' = [applied EXCEPT ![p] = {sid}]
                  /\ RespondWith(p, 200, "", Len(ledger) + 1)
                  /\ UNCHANGED req
    /\ UNCHANGED <<runs, faults>>
    /\ UNCHANGED catalog

\* ================================================== POST /api/stock-adjust
\* The body is parsed and validated, all of it local to the handler.
PostStockAdjust(p) ==
    /\ pc[p] = "idle"
    /\ p \in Adjusters
    /\ \E sid \in AdjustRows, pid \in AdjustProducts, d \in AdjustDeltas :
          IF d = 0
          THEN Reject(p, "stock-adjust", 400, "quantity_change must be a non-zero number")
          ELSE /\ req' = [req EXCEPT ![p] = [kind |-> "stock-adjust",
                              product_stock_id |-> sid, product_id |-> pid,
                              quantity_change |-> d]]
               /\ pc' = [pc EXCEPT ![p] = "sa_ledger"]
               /\ UNCHANGED <<cur, leg, runId, resp>>
    /\ UNCHANGED <<stock, lock, ledger, runs, applied, faults>>
    /\ UNCHANGED catalog

\* supabase.from("stock_ledger").insert(...)
StockAdjustLedger(p) ==
    /\ pc[p] = "sa_ledger"
    /\ \/ /\ ledger' = Append(ledger, LedgerEntry(req[p].product_id,
                          req[p].quantity_change, "products_stock", 0, p))
          /\ Continue(p, "sa_rpc")
          /\ UNCHANGED <<cur, faults>>
       \/ /\ CanFail
          /\ faults' = faults + 1
          /\ Finish(p, 500, "Failed to create ledger entry")
          /\ UNCHANGED ledger
    /\ UNCHANGED <<stock, lock, runs, applied>>
    /\ UNCHANGED catalog

\* supabase.rpc("increment_stock", {row_id, qty}): the function is not part
\* of the schema, so the call either errors (the fallback runs) or, where a
\* database defines it, adds qty to the row in one statement.
StockAdjustRpc(p) ==
    /\ pc[p] = "sa_rpc"
    /\ LET sid == req[p].product_stock_id
       IN \/ /\ sid \in StockRows
             /\ lock[sid] = NULL
             /\ stock' = [stock EXCEPT ![sid] = stock[sid] + req[p].quantity_change]
             /\ applied' = [applied EXCEPT ![p] = {sid}]
             /\ Finish(p, 200, "")
          \/ /\ Continue(p, "sa_read")
             /\ UNCHANGED <<stock, applied, cur>>
    /\ UNCHANGED <<lock, ledger, runs, faults>>
    /\ UNCHANGED catalog

\* Fallback: read current quantity
StockAdjustRead(p) ==
    /\ pc[p] = "sa_read"
    /\ \/ /\ req[p].product_stock_id \in StockRows
          /\ cur' = [cur EXCEPT ![p] = stock[req[p].product_stock_id]]
          /\ Continue(p, "sa_update")
          /\ UNCHANGED faults
       \/ /\ req[p].product_stock_id \notin StockRows
          /\ Finish(p, 500, "Failed to read current stock")
          /\ UNCHANGED faults
       \/ /\ CanFail
          /\ faults' = faults + 1
          /\ Finish(p, 500, "Failed to read current stock")
    /\ UNCHANGED <<stock, lock, ledger, runs, applied>>
    /\ UNCHANGED catalog

\* Fallback: update({quantity: newQuantity})
StockAdjustUpdate_Rollback(p) ==
    /\ pc[p] = "sa_update"
    /\ LET sid == req[p].product_stock_id
           newQuantity == cur[p] + req[p].quantity_change
       IN \/ /\ lock[sid] = NULL
             /\ stock' = [stock EXCEPT ![sid] = newQuantity]
             /\ applied' = [applied EXCEPT ![p] = {sid}]
             /\ Finish(p, 200, "")
             /\ UNCHANGED <<faults, ledger>>
          \/ /\ CanFail
             /\ faults' = faults + 1
             /\ Finish(p, 500, "Failed to update stock quantity")
             /\ ledger' = SelectSeq(ledger, LAMBDA e : e.created_by # p)
             /\ UNCHANGED <<stock, applied>>
    /\ UNCHANGED <<lock, runs>>
    /\ UNCHANGED catalog

StockAdjustUpdate(p) ==
    /\ pc[p] = "sa_update"
    /\ LET sid == req[p].product_stock_id
           newQuantity == cur[p] + req[p].quantity_change
       IN \/ /\ lock[sid] = NULL
             /\ stock' = [stock EXCEPT ![sid] = newQuantity]
             /\ applied' = [applied EXCEPT ![p] = {sid}]
             /\ Finish(p, 200, "")
             /\ UNCHANGED faults
          \/ /\ CanFail
             /\ faults' = faults + 1
             /\ Finish(p, 500, "Failed to update stock quantity")
             /\ UNCHANGED <<stock, applied>>
    /\ UNCHANGED <<lock, ledger, runs>>
    /\ UNCHANGED catalog

\* =============================================== POST /api/production-runs
Quantities == (0 - 1)..MaxBags

RunBodies ==
    [product_id : {"fg", "fgm", "rm", "zz"},
     machine_id : {"m1", "m2", "m0"},
     shift : {"DAY", "EVENING"},
     target_quantity : {0 - 1, 1},
     actual_pieces_produced : (0 - 1)..1,
     raw_material_id : {NULL, "rm"},
     raw_material_bags_used : Quantities,
     master_batch_id : {NULL, "mb"},
     master_batch_bags_used : Quantities]

productUsesMasterBatch(b) == ParentMasterBatch(b.product_id) # NULL

\* Mutant: the status of the machine is not looked at.
ValidationErrorAt_AnyStatus(b, status) ==
    CASE b.shift \notin VALID_SHIFTS -> "shift must be DAY or NIGHT"
      [] b.actual_pieces_produced < 0 ->
            "actual_pieces_produced must be a non-negative number"
      [] b.raw_material_bags_used < 0 ->
            "raw_material_bags_used must be a non-negative number"
      [] b.product_id \notin Products -> "Product not found"
      [] ProductType(b.product_id) # "FINISHED_GOOD" ->
            "Product must be a FINISHED_GOOD type"
      [] productUsesMasterBatch(b) /\ b.master_batch_bags_used < 0 ->
            "master_batch_bags_used must be a non-negative number"
      [] b.machine_id \notin Machines -> "Machine not found"
      [] OTHER -> ""

\* The validation of the body against the products and machines rows, in
\* the order of the handler; "" when the body passes.
ValidationErrorAt(b, status) ==
    CASE b.shift \notin VALID_SHIFTS -> "shift must be DAY or NIGHT"
      [] b.actual_pieces_produced < 0 ->
            "actual_pieces_produced must be a non-negative number"
      [] b.raw_material_bags_used < 0 ->
            "raw_material_bags_used must be a non-negative number"
      [] b.product_id \notin Products -> "Product not found"
      [] ProductType(b.product_id) # "FINISHED_GOOD" ->
            "Product must be a FINISHED_GOOD type"
      [] productUsesMasterBatch(b) /\ b.master_batch_bags_used < 0 ->
            "master_batch_bags_used must be a non-negative number"
      [] b.machine_id \notin Machines -> "Machine not found"
      [] status[b.machine_id] # "ACTIVE" -> "Machine must be in ACTIVE status"
      [] OTHER -> ""

ValidationError(b) == ValidationErrorAt(b, machineStatus)

\* The three legs, in the order the handler applies them.
Legs == 1..3

LegProduct(b, k) ==
    CASE k = 1 -> b.product_id
      [] k = 2 -> b.raw_material_id
      [] k = 3 -> b.master_batch_id

LegChange(b, k) ==
    CASE k = 1 -> b.actual_pieces_produced
      [] k = 2 -> 0 - b.raw_material_bags_used
      [] k = 3 -> 0 - b.master_batch_bags_used

\* Mutant: the finished-good leg runs for zero pieces too.
LegRuns_Zero(b, k) ==
    CASE k = 1 -> b.actual_pieces_produced >= 0
      [] k = 2 -> b.raw_material_id # NULL /\ b.raw_material_bags_used > 0
      [] k = 3 -> b.master_batch_id # NULL /\ b.master_batch_bags_used > 0

\* The condition under which the handler runs leg k.
LegRuns(b, k) ==
    CASE k = 1 -> b.actual_pieces_produced > 0
      [] k = 2 -> b.raw_material_id # NULL /\ b.raw_material_bags_used > 0
      [] k = 3 -> b.master_batch_id # NULL /\ b.master_batch_bags_used > 0

\* Mutant: a leg failure answered with the text of the failed insert.
LegLedgerError_Generic(k) == "Failed to create production run"

LegLedgerError(k) ==
    CASE k = 1 -> "Failed to create finished good ledger entry"
      [] k = 2 -> "Failed to create raw material ledger entry"
      [] k = 3 -> "Failed to create master batch ledger entry"

\* The pre-flight stock checks are guarded like legs 2 and 3.
CheckRuns(b, k) == LegRuns(b, k)

CheckNotFound(k) ==
    IF k = 2 THEN "Raw material stock record not found"
    ELSE "Master batch stock record not found"

CheckInsufficient(k) ==
    IF k = 2 THEN "Insufficient raw material stock"
    ELSE "Insufficient master batch stock"

\* Mutant: the last of the steps k..3 that runs.
FirstFrom_Last(b, k) ==
    IF \E j \in k..3 : LegRuns(b, j)
    THEN CHOOSE j \in k..3 : LegRuns(b, j) /\ \A i \in (j + 1)..3 : ~LegRuns(b, i)
    ELSE 0

\* The first of the steps k..3 that runs, 0 when none does.
FirstFrom(b, k) ==
    IF \E j \in k..3 : LegRuns(b, j)
    THEN CHOOSE j \in k..3 : LegRuns(b, j) /\ \A i \in k..(j - 1) : ~LegRuns(b, i)
    ELSE 0

\* After validation or a passed check: the next check that runs, or the insert.
GotoCheck(p, b, k) ==
    /\ leg' = [leg EXCEPT ![p] = FirstFrom(b, k)]
    /\ pc' = [pc EXCEPT ![p] = IF FirstFrom(b, k) = 0 THEN "pr_insert" ELSE "pr_check"]

\* The body is parsed and validated.
ValidateRun(p, b) ==
    IF ValidationError(b) # ""
    THEN Reject(p, "production-run", 400, ValidationError(b))
    ELSE /\ req' = [req EXCEPT ![p] = [kind |-> "production-run", body |-> b]]
         /\ GotoCheck(p, b, 2)
         /\ UNCHANGED <<cur, runId, resp>>

PostProductionRun(p) ==
    /\ pc[p] = "idle"
    /\ p \in Operators
    /\ \E b \in RunBodies : ValidateRun(p, b)
    /\ UNCHANGED <<stock, lock, ledger, runs, applied, faults>>
    /\ UNCHANGED catalog

\* The insert payload.
RunRecord(b, user) ==
    [product_id |-> b.product_id,
     machine_id |-> b.machine_id,
     target_quantity |-> b.target_quantity,
     actual_pieces_produced |-> b.actual_pieces_produced,
     raw_material_id |-> b.raw_material_id,
     raw_material_bags_used |-> b.raw_material_bags_used,
     master_batch_id |-> IF productUsesMasterBatch(b) THEN b.master_batch_id ELSE NULL,
     master_batch_bags_used |->
         IF productUsesMasterBatch(b) THEN b.master_batch_bags_used ELSE 0,
     shift |-> b.shift,
     created_by |-> user]

\* Mutant: the availability check placed after the insert of the run record.
ProductionRunCheck_AfterInsert(p) ==
    /\ pc[p] = "pr_check"
    /\ LET b == req[p].body
           k == leg[p]
       IN \/ /\ IF stock[LegProduct(b, k)] < 0 - LegChange(b, k)
                THEN /\ Finish(p, 400, CheckInsufficient(k))
                     /\ runs' = Append(runs, RunRecord(b, p))
                ELSE /\ GotoCheck(p, b, k + 1)
                     /\ UNCHANGED <<req, cur, runId, resp, runs>>
             /\ UNCHANGED faults
          \/ /\ CanFail
             /\ faults' = faults + 1
             /\ Finish(p, 400, CheckNotFound(k))
             /\ UNCHANGED runs
    /\ UNCHANGED <<stock, lock, ledger, applied>>
    /\ UNCHANGED catalog

\* Check stock availability before proceeding (raw material, then master batch).
ProductionRunCheck(p) ==
    /\ pc[p] = "pr_check"
    /\ LET b == req[p].body
           k == leg[p]
       IN \/ /\ IF stock[LegProduct(b, k)] < 0 - LegChange(b, k)
                THEN Finish(p, 400, CheckInsufficient(k))
                ELSE /\ GotoCheck(p, b, k + 1)
                     /\ UNCHANGED <<req, cur, runId, resp>>
             /\ UNCHANGED faults
          \/ /\ CanFail
             /\ faults' = faults + 1
             /\ Finish(p, 400, CheckNotFound(k))
    /\ UNCHANGED <<stock, lock, ledger, runs, applied>>
    /\ UNCHANGED catalog

\* After the insert or an applied leg: on to the next leg that runs.
GotoLeg(p, b, k) ==
    /\ leg' = [leg EXCEPT ![p] = FirstFrom(b, k)]
    /\ pc' = [pc EXCEPT ![p] = "pr_ledger"]
    /\ UNCHANGED <<req, resp>>

\* Mutant: the legs run although the insert of the run record failed.
ProductionRunInsert_Unchecked(p) ==
    /\ pc[p] = "pr_insert"
    /\ \/ /\ runs' = Append(runs, RunRecord(req[p].body, p))
          /\ IF FirstFrom(req[p].body, 1) = 0
             THEN RunCreated(p, Len(runs) + 1)
             ELSE /\ runId' = [runId EXCEPT ![p] = Len(runs) + 1]
                  /\ GotoLeg(p, req[p].body, 1)
                  /\ UNCHANGED cur
          /\ UNCHANGED faults
       \/ /\ CanFail
          /\ faults' = faults + 1
          /\ IF FirstFrom(req[p].body, 1) = 0
             THEN Finish(p, 500, "Failed to create production run")
             ELSE /\ runId' = [runId EXCEPT ![p] = Len(runs) + 1]
                  /\ GotoLeg(p, req[p].body, 1)
                  /\ UNCHANGED cur
          /\ UNCHANGED runs
    /\ UNCHANGED <<stock, lock, ledger, applied>>
    /\ UNCHANGED catalog

\* supabase.from("production_runs").insert(insertData).select("id").single()
ProductionRunInsert(p) ==
    /\ pc[p] = "pr_insert"
    /\ \/ /\ runs' = Append(runs, RunRecord(req[p].body, p))
          /\ IF FirstFrom(req[p].body, 1) = 0
             THEN RunCreated(p, Len(runs) + 1)
             ELSE /\ runId' = [runId EXCEPT ![p] = Len(runs) + 1]
                  /\ GotoLeg(p, req[p].body, 1)
                  /\ UNCHANGED cur
          /\ UNCHANGED faults
       \/ /\ CanFail
          /\ faults' = faults + 1
          /\ Finish(p, 500, "Failed to create production run")
          /\ UNCHANGED runs
    /\ UNCHANGED <<stock, lock, ledger, applied>>
    /\ UNCHANGED catalog

\* Leg k: supabase.from("stock_ledger").insert(...)
ProductionRunLedger_LatestRun(p) ==
    /\ pc[p] = "pr_ledger"
    /\ LET b == req[p].body
           k == leg[p]
       IN \/ /\ ledger' = Append(ledger, LedgerEntry(LegProduct(b, k), LegChange(b, k),
                                     "production_runs", Len(runs), p))
             /\ Continue(p, "pr_read")
             /\ UNCHANGED <<cur, faults>>
          \/ /\ CanFail
             /\ faults' = faults + 1
             /\ Finish(p, 500, LegLedgerError(k))
             /\ UNCHANGED ledger
    /\ UNCHANGED <<stock, lock, runs, applied>>
    /\ UNCHANGED catalog

ProductionRunLedger(p) ==
    /\ pc[p] = "pr_ledger"
    /\ LET b == req[p].body
           k == leg[p]
       IN \/ /\ ledger' = Append(ledger, LedgerEntry(LegProduct(b, k), LegChange(b, k),
                                     "production_runs", runId[p], p))
             /\ Continue(p, "pr_read")
             /\ UNCHANGED <<cur, faults>>
          \/ /\ CanFail
             /\ faults' = faults + 1
             /\ Finish(p, 500, LegLedgerError(k))
             /\ UNCHANGED ledger
    /\ UNCHANGED <<stock, lock, runs, applied>>
    /\ UNCHANGED catalog

\* updateProductStock: read the stock row of the product
UpdateProductStockRead(p) ==
    /\ pc[p] = "pr_read"
    /\ \/ /\ cur' = [cur EXCEPT ![p] = stock[LegProduct(req[p].body, leg[p])]]
          /\ Continue(p, "pr_update")
          /\ UNCHANGED faults
       \/ /\ CanFail
          /\ faults' = faults + 1
          /\ Finish(p, 500, "Failed to read stock for product")
    /\ UNCHANGED <<stock, lock, ledger, runs, applied>>
    /\ UNCHANGED catalog

\* Mutant: a failed balance update is not reported.
UpdateProductStockWrite_Swallowed(p) ==
    /\ pc[p] = "pr_update"
    /\ LET b == req[p].body
           k == leg[p]
           row == LegProduct(b, k)
           newQty == cur[p] + LegChange(b, k)
       IN \/ /\ lock[row] = NULL
             /\ stock' = [stock EXCEPT ![row] = newQty]
             /\ applied' = [applied EXCEPT ![p] = @ \cup {row}]
             /\ IF FirstFrom(b, k + 1) = 0
                THEN RunCreated(p, runId[p])
                ELSE /\ GotoLeg(p, b, k + 1)
                     /\ UNCHANGED <<cur, runId>>
             /\ UNCHANGED faults
          \/ /\ CanFail
             /\ faults' = faults + 1
             /\ RunCreated(p, runId[p])
             /\ UNCHANGED <<stock, applied>>
    /\ UNCHANGED <<lock, ledger, runs>>
    /\ UNCHANGED catalog

\* updateProductStock: update({quantity: newQty}), then the next leg
UpdateProductStockWrite(p) ==
    /\ pc[p] = "pr_update"
    /\ LET b == req[p].body
           k == leg[p]
           row == LegProduct(b, k)
           newQty == cur[p] + LegChange(b, k)
       IN \/ /\ lock[row] = NULL
             /\ stock' = [stock EXCEPT ![row] = newQty]
             /\ applied' = [applied EXCEPT ![p] = @ \cup {row}]
             /\ IF FirstFrom(b, k + 1) = 0
                THEN RunCreated(p, runId[p])
                ELSE /\ GotoLeg(p, b, k + 1)
                     /\ UNCHANGED <<cur, runId>>
             /\ UNCHANGED faults
          \/ /\ CanFail
             /\ faults' = faults + 1
             /\ Finish(p, 500, "Failed to update stock for product")
             /\ UNCHANGED <<stock, applied>>
    /\ UNCHANGED <<lock, ledger, runs>>
    /\ UNCHANGED catalog

\* ===================================================== PATCH /api/machines
\* The body names a machine and a status; the update is one statement.
PatchMachine(p) ==
    /\ pc[p] = "idle"
    /\ \E id \in Machines \cup {"m0"}, st \in VALID_STATUSES \cup {"BROKEN"} :
          IF st \notin VALID_STATUSES
          THEN /\ Reject(p, "machine-update", 400, "Invalid status")
               /\ UNCHANGED <<machineStatus, faults>>
          ELSE \/ /\ id \in Machines
                  /\ machineStatus' = [machineStatus EXCEPT ![id] = st]
                  /\ Reject(p, "machine-update", 200, "")
                  /\ UNCHANGED faults
               \/ /\ id \notin Machines
                  /\ Reject(p, "machine-update", 500, "Failed to update machine")
                  /\ UNCHANGED <<machineStatus, faults>>
               \/ /\ CanFail
                  /\ faults' = faults + 1
                  /\ Reject(p, "machine-update", 500, "Failed to update machine")
                  /\ UNCHANGED machineStatus
    /\ UNCHANGED <<stock, lock, ledger, runs, applied, reorderLevel, alerts>>

\* ===================================================== PATCH /api/products
Levels == 0..MaxLevel

\* The body names a product and a reorder_level.
PatchProduct(p) ==
    /\ pc[p] = "idle"
    /\ \E id \in AdjustProducts, val \in Levels \cup {0 - 1} :
          IF val < 0
          THEN /\ Reject(p, "product-update", 400,
                         "Reorder level must be a non-negative number")
               /\ UNCHANGED <<reorderLevel, faults>>
          ELSE \/ /\ reorderLevel' = [reorderLevel EXCEPT ![id] = val]
                  /\ Reject(p, "product-update", 200, "")
                  /\ UNCHANGED faults
               \/ /\ CanFail
                  /\ faults' = faults + 1
                  /\ Reject(p, "product-update", 500, "Failed to update product")
                  /\ UNCHANGED reorderLevel
    /\ UNCHANGED <<stock, lock, ledger, runs, applied, machineStatus, alerts>>

\* ======================================================== the inventory page
\* The rows of the re-order query: the stock of raw materials and master batches.
ReorderRows ==
    {r \in StockRows : ProductType(r) \in {"RAW_MATERIAL", "MASTER_BATCH"}}

BelowReorder_Strict(quantity, level) == quantity < level

BelowReorder(quantity, level) == quantity <= level

reorderItems == {r \in ReorderRows : BelowReorder(stock[r], reorderLevel[r])}

\* StockPage renders the re-order alerts from the current balances.
StockPage ==
    /\ ~alerts.shown
    /\ alerts' = [shown |-> TRUE, items |-> reorderItems]
    /\ UNCHANGED <<stock, lock, ledger, runs, pc, req, cur, leg, runId, applied, resp,
                   faults, machineStatus, reorderLevel>>

\* ========================================================= the system
Next ==
    \E p \in Users :
        \/ CallAdjustStock(p)
        \/ AdjustStockSelect(p)
        \/ AdjustStockCommit(p)
        \/ PostStockAdjust(p)
        \/ StockAdjustLedger(p)
        \/ StockAdjustRpc(p)
        \/ StockAdjustRead(p)
        \/ StockAdjustUpdate(p)
        \/ PostProductionRun(p)
        \/ ProductionRunCheck(p)
        \/ ProductionRunInsert(p)
        \/ ProductionRunLedger(p)
        \/ UpdateProductStockRead(p)
        \/ UpdateProductStockWrite(p)
        \/ PatchMachine(p)
        \/ PatchProduct(p)

Spec == Init /\ [][Next]_vars

\* ---- Two production runs side by side, on bodies that pass validation.
PairBodies ==
    {b \in RunBodies : /\ ValidationErrorAt(b, InitMachineStatus) = ""
                       /\ b.shift = "DAY"
                       /\ b.target_quantity = 1
                       /\ b.raw_material_id # NULL
                       /\ b.master_batch_id # NULL
                       /\ b.master_batch_bags_used >= 0}

PostPairedRun(p) ==
    /\ pc[p] = "idle"
    /\ \E b \in PairBodies : ValidateRun(p, b)
    /\ UNCHANGED <<stock, lock, ledger, runs, applied, faults>>
    /\ UNCHANGED catalog

NextRuns ==
    \E p \in Users :
        \/ PostPairedRun(p)
        \/ ProductionRunCheck(p)
        \/ ProductionRunInsert(p)
        \/ ProductionRunLedger(p)
        \/ UpdateProductStockRead(p)
        \/ UpdateProductStockWrite(p)

SpecRuns == Init /\ [][NextRuns]_vars

\* ---- Manual adjustments only, every request that can take a step
\* eventually taking one (the database and the handlers keep running).
NextAdjust ==
    \E p \in Users :
        \/ CallAdjustStock(p)
        \/ AdjustStockSelect(p)
        \/ AdjustStockCommit(p)
        \/ PostStockAdjust(p)
        \/ StockAdjustLedger(p)
        \/ StockAdjustRpc(p)
        \/ StockAdjustRead(p)
        \/ StockAdjustUpdate(p)

Progresses(p) ==
    /\ WF_vars(AdjustStockSelect(p))
    /\ WF_vars(AdjustStockCommit(p))
    /\ WF_vars(StockAdjustLedger(p))
    /\ WF_vars(StockAdjustRpc(p))
    /\ WF_vars(StockAdjustRead(p))
    /\ WF_vars(StockAdjustUpdate(p))

SpecAdjust == Init /\ [][NextAdjust]_vars /\ \A p \in Users : Progresses(p)

\* ---- The inventory page over arbitrary balances and reorder levels.
InitQuery ==
    /\ stock \in [StockRows -> 0..(MaxLevel + 1)]
    /\ reorderLevel \in [Products -> Levels]
    /\ lock = [r \in StockRows |-> NULL]
    /\ ledger = SelectSeq([i \in 1..4 |->
                    LET r == <<"fg", "fgm", "rm", "mb">>[i]
                    IN LedgerEntry(r, stock[r], "products_stock", 0, "seed")],
                 LAMBDA e : e.quantity_change # 0)
    /\ runs = <<>>
    /\ pc = [p \in Users |-> "idle"]
    /\ req = [p \in Users |-> NoReq]
    /\ cur = [p \in Users |-> 0]
    /\ leg = [p \in Users |-> 0]
    /\ runId = [p \in Users |-> 0]
    /\ applied = [p \in Users |-> {}]
    /\ resp = [p \in Users |-> NoResp]
    /\ faults = 0
    /\ machineStatus = InitMachineStatus
    /\ alerts = NoAlerts

NextQuery == StockPage

SpecQuery == InitQuery /\ [][NextQuery]_vars

\* ============================================================ properties
Done(p) == pc[p] = "done"

ManualKinds == {"adjust_stock", "stock-adjust"}

\* A request that carries its body: it passed validation.
Manual(p) == req[p].kind \in ManualKinds /\ "quantity_change" \in DOMAIN req[p]

Run(p) == req[p].kind = "production-run" /\ "body" \in DOMAIN req[p]

RunsOf(user) == {i \in 1..Len(runs) : runs[i].created_by = user}

Succeeded(p) == Done(p) /\ resp[p].status \in {200, 201}

\* ---- C1: in every reachable state, for every product, the balance
\* quantity equals the sum of quantity_change over the product's ledger
\* entries, the states between an operation's storage writes included.
C1_BalanceEqualsLedgerSum == \A r \in StockRows : stock[r] = LedgerSum(r)

\* ---- C2: no balance quantity is ever negative.
C2_NonNegative == \A r \in StockRows : stock[r] >= 0

\* ---- C3: every request that has terminated, also one that failed between
\* its ledger write and its balance write, leaves exactly one ledger entry
\* per balance change it made and one balance change per ledger entry.
C3_Paired ==
    \A p \in Users :
        Done(p) => Cardinality(EntriesOf(p)) = Cardinality(applied[p])

\* The legs the run record calls for: a positive quantity and a product
\* reference (the record holds no master batch for a product without that
\* dependency).
Applicable(run, k) ==
    CASE k = 1 -> run.actual_pieces_produced > 0
      [] k = 2 -> run.raw_material_id # NULL /\ run.raw_material_bags_used > 0
      [] k = 3 -> run.master_batch_id # NULL /\ run.master_batch_bags_used > 0

RecordProduct(run, k) ==
    CASE k = 1 -> run.product_id
      [] k = 2 -> run.raw_material_id
      [] k = 3 -> run.master_batch_id

\* Leg k of run id has its ledger entry and its balance change.
LegApplied(p, id, k) ==
    /\ \E i \in EntriesOf(p) : /\ ledger[i].transaction_id = id
                               /\ ledger[i].transaction_source_table = "production_runs"
                               /\ ledger[i].product_id = RecordProduct(runs[id], k)
    /\ RecordProduct(runs[id], k) \in applied[p]

Committed(p) ==
    \E id \in RunsOf(p) : \A k \in Legs : Applicable(runs[id], k) => LegApplied(p, id, k)

NothingPersisted(p) == RunsOf(p) = {} /\ EntriesOf(p) = {} /\ applied[p] = {}

PartiallyApplied(p) ==
    \E id \in RunsOf(p) : \E k \in Legs : Applicable(runs[id], k) /\ ~LegApplied(p, id, k)

\* ---- C4: a production run is all-or-nothing: when its creation has
\* terminated, either the run record and every applicable leg are persisted
\* or nothing is, also after a storage failure on a later leg.
C4_AllOrNothing ==
    \A p \in Users :
        (Done(p) /\ req[p].kind = "production-run") => (Committed(p) \/ NothingPersisted(p))

\* The error texts of the responses given before anything is written.
PreCommitErrors ==
    { ValidationErrorAt(b, [m \in Machines |-> st]) : b \in RunBodies, st \in VALID_STATUSES }
    \cup { CheckNotFound(2), CheckNotFound(3), CheckInsufficient(2), CheckInsufficient(3),
           "Failed to create production run" }

\* ---- C5: a production-run creation that ends with the run record
\* persisted and only a proper subset of its applicable legs applied answers
\* with a failure whose response differs from every response given when
\* nothing was committed; and a failure with nothing committed answers with
\* one of the latter.
C5_PartialIsSurfaced ==
    \A p \in Users :
        (Done(p) /\ req[p].kind = "production-run") =>
            /\ PartiallyApplied(p) =>
                  /\ resp[p].status = 500
                  /\ resp[p].error \notin PreCommitErrors
            /\ (NothingPersisted(p) /\ ~Succeeded(p)) => resp[p].error \in PreCommitErrors

C5_Witness ==
    \E p \in Users : Done(p) /\ PartiallyApplied(p) /\ applied[p] # {}

\* A manual adjustment in progress, on the balance row of its product,
\* whose delta would make that balance negative.
WouldGoNegative(p) ==
    /\ Manual(p)
    /\ ~Done(p)
    /\ StockRowFound(req[p].product_stock_id, req[p].product_id)
    /\ stock[req[p].product_stock_id] + req[p].quantity_change < 0

\* ---- C6: a manual adjustment whose delta would make the balance negative
\* is rejected with an insufficient-stock error and writes neither a ledger
\* entry nor a balance.
C6_InsufficientRejected ==
    [][\A p \in Users :
          WouldGoNegative(p) =>
              /\ Cardinality(EntriesOf(p))' = Cardinality(EntriesOf(p))
              /\ applied'[p] = applied[p]
              /\ Done(p)' => resp'[p].error = "Insufficient stock"]_vars

\* Two manual adjustments on one row, each fitting the opening balance and
\* together exceeding it, with no storage error in the way.
Contending(p, q, r) ==
    /\ p # q
    /\ Manual(p) /\ Manual(q)
    /\ req[p].product_stock_id = r /\ req[p].product_id = r
    /\ req[q].product_stock_id = r /\ req[q].product_id = r
    /\ InitStock[r] + req[p].quantity_change >= 0
    /\ InitStock[r] + req[q].quantity_change >= 0
    /\ InitStock[r] + req[p].quantity_change + req[q].quantity_change < 0
    /\ faults = 0

NewEntries(r) == {i \in (Len(InitLedger) + 1)..Len(ledger) : ledger[i].product_id = r}

\* ---- C7: of two concurrent adjustments on one product that each fit the
\* balance and together exceed it, exactly one succeeds and the other fails
\* with InsufficientStock; the final balance is the initial balance plus the
\* successful delta and exactly one new ledger entry exists.
C7_ExactlyOneSucceeds ==
    \A p, q \in Users : \A r \in StockRows :
        (Contending(p, q, r) /\ Done(p) /\ Done(q)) =>
            \E w \in {p, q} : \E l \in {p, q} \ {w} :
                /\ Succeeded(w)
                /\ resp[l].error = "Insufficient stock"
                /\ stock[r] = InitStock[r] + req[w].quantity_change
                /\ Cardinality(NewEntries(r)) = 1

\* The change a request makes to row r when all of it is applied.
RECURSIVE LegSum(_, _, _)
LegSum(b, r, k) ==
    IF k > 3 THEN 0
    ELSE (IF LegRuns(b, k) /\ LegProduct(b, k) = r THEN LegChange(b, k) ELSE 0)
         + LegSum(b, r, k + 1)

DeltaOn(p, r) ==
    IF Manual(p) THEN (IF req[p].product_stock_id = r THEN req[p].quantity_change ELSE 0)
    ELSE IF Run(p) THEN LegSum(req[p].body, r, 1)
    ELSE 0

RECURSIVE SumDeltas(_, _)
SumDeltas(S, r) ==
    IF S = {} THEN 0
    ELSE LET p == CHOOSE x \in S : TRUE IN DeltaOn(p, r) + SumDeltas(S \ {p}, r)

\* ---- C8: no lost updates: when concurrently running adjustments (manual
\* adjustments and production-run legs alike) have all reported success, the
\* balance of every product is its initial balance plus the sum of their
\* deltas.
C8_NoLostUpdates ==
    (\A p \in Users : Succeeded(p)) =>
        \A r \in StockRows : stock[r] = InitStock[r] + SumDeltas(Users, r)

\* ---- C9: a production-run creation rejected in the pre-flight phase
\* has persisted no run record, appended no ledger entry and changed no
\* balance.
C9_RejectedHasNoEffect ==
    \A p \in Users :
        (Done(p) /\ req[p].kind = "production-run" /\ resp[p].status = 400) =>
            NothingPersisted(p)

\* A run rejected because the known balance is below the requested consumption.
C9_Witness ==
    \E p \in Users :
        /\ Done(p) /\ Run(p)
        /\ resp[p] = Response(400, CheckInsufficient(2))
        /\ req[p].body.raw_material_bags_used > stock["rm"]

\* ---- C10: a production run whose finished good declares no master-batch
\* dependency appends no master-batch ledger entry (and so changes no
\* master-batch balance), whatever master batch the caller submits.
C10_NoMasterBatchLeg ==
    \A i \in 1..Len(ledger) :
        (/\ ledger[i].transaction_source_table = "production_runs"
         /\ ProductType(ledger[i].product_id) = "MASTER_BATCH")
        => ParentMasterBatch(runs[ledger[i].transaction_id].product_id) # NULL

\* The responses that reject a request over its master batch.
MasterBatchErrors ==
    { "master_batch_bags_used must be a non-negative number",
      CheckNotFound(3), CheckInsufficient(3) }

\* ---- C11: a production run for a finished good without master-batch
\* dependency is never rejected because of the submitted master-batch
\* quantity, the master batch's stock level or its missing stock record.
C11_MasterBatchIgnored ==
    \A p \in Users :
        (Done(p) /\ Run(p) /\ ~productUsesMasterBatch(req[p].body))
            => resp[p].error \notin MasterBatchErrors

\* A finished production run with nothing else going on: no other request
\* was received and no storage call failed.
Alone(p) ==
    /\ Done(p) /\ Run(p)
    /\ faults = 0
    /\ \A q \in Users \ {p} : pc[q] = "idle"

RunEntries(p) == {ledger[i] : i \in EntriesOf(p)}

\* ---- C12: alone, a successful run for a finished good without
\* master-batch dependency, producing p > 0 pieces from r > 0 bags within
\* the raw-material balance, adds p to the finished-good balance, takes r
\* from the raw-material balance and appends exactly two ledger entries,
\* +p on the finished good and -r on the raw material, with one source
\* transaction id.
C12_ScenarioA ==
    \A p \in Users :
        (/\ Alone(p) /\ Succeeded(p)
         /\ ~productUsesMasterBatch(req[p].body)
         /\ req[p].body.actual_pieces_produced > 0
         /\ req[p].body.raw_material_id # NULL
         /\ req[p].body.raw_material_bags_used > 0)
        => LET b == req[p].body
               fg == b.product_id
               rm == b.raw_material_id
           IN /\ stock[fg] = InitStock[fg] + b.actual_pieces_produced
              /\ stock[rm] = InitStock[rm] - b.raw_material_bags_used
              /\ Cardinality(EntriesOf(p)) = 2
              /\ \E id \in RunsOf(p) :
                    RunEntries(p) =
                        { LedgerEntry(fg, b.actual_pieces_produced, "production_runs", id, p),
                          LedgerEntry(rm, 0 - b.raw_material_bags_used,
                                      "production_runs", id, p) }

RunLedger == {i \in 1..Len(ledger) :
                 ledger[i].transaction_source_table = "production_runs"}

\* ---- C13: every ledger entry a production run appends carries the id of
\* that run as its source transaction id, so the entries of one run share
\* it, and the entries of two different runs never do.
C13_RunTransactionId ==
    \A i, j \in RunLedger :
        /\ ledger[i].transaction_id \in RunsOf(ledger[i].created_by)
        /\ (ledger[i].created_by = ledger[j].created_by)
              <=> (ledger[i].transaction_id = ledger[j].transaction_id)

\* Two runs side by side, each with two of its entries in the ledger.
C13_Witness ==
    /\ Len(runs) = 2
    /\ \A p \in Users : Cardinality(EntriesOf(p) \cap RunLedger) >= 2

\* ---- C14: the ledger is append-only: whatever the operation (manual
\* adjustment, production run, product or machine update), every step
\* leaves the entries already in the ledger in place and unchanged.
C14_AppendOnly ==
    [][/\ Len(ledger') >= Len(ledger)
       /\ SubSeq(ledger', 1, Len(ledger)) = ledger]_vars

\* A failed balance update after the entry was written, next to a
\* catalog update that went through.
C14_Witness ==
    \E p, q \in Users :
        /\ Manual(p) /\ Done(p)
        /\ resp[p].error = "Failed to update stock quantity"
        /\ EntriesOf(p) # {}
        /\ req[q].kind \in {"machine-update", "product-update"} /\ Succeeded(q)

\* Two identical manual adjustments on the balance row of one product.
Identical(p, q) ==
    /\ p # q
    /\ Manual(p) /\ Manual(q)
    /\ req[p].product_stock_id = req[q].product_stock_id
    /\ req[p].product_id = req[q].product_id
    /\ req[p].quantity_change = req[q].quantity_change
    /\ StockRowFound(req[p].product_stock_id, req[p].product_id)

\* ---- C15: adjustments are not idempotent: N identical adjustment calls
\* that each succeed append N ledger entries and change the balance by N
\* times the delta (here N = 2, the calls being the only activity).
C15_NotIdempotent ==
    \A p, q \in Users :
        (Identical(p, q) /\ Succeeded(p) /\ Succeeded(q))
        => LET r == req[p].product_stock_id
           IN /\ Cardinality(NewEntries(r)) = 2
              /\ stock[r] = InitStock[r] + 2 * req[p].quantity_change

\* ---- C16: the success response of a manual adjustment carries the
\* identity of the ledger entry this call appended: an existing entry for
\* the adjusted product, with the requested delta.
C16_ReturnsLedgerId ==
    \A p \in Users :
        (Manual(p) /\ Succeeded(p))
        => /\ resp[p].ledger_id \in EntriesOf(p)
           /\ ledger[resp[p].ledger_id].product_id = req[p].product_id
           /\ ledger[resp[p].ledger_id].quantity_change = req[p].quantity_change

\* ---- C17: an adjustment that targets a balance record that does not
\* exist fails, appends no ledger entry and changes no balance.
C17_BalanceNotFound ==
    \A p \in Users :
        (Manual(p) /\ req[p].product_stock_id \notin StockRows)
        => /\ EntriesOf(p) = {}
           /\ applied[p] = {}
           /\ Done(p) => ~Succeeded(p)

\* An adjust_stock call about to take the lock of its row.
Selecting(p) ==
    /\ pc[p] = "as_select"
    /\ StockRowFound(req[p].product_stock_id, req[p].product_id)

\* ---- C18: the lock is per balance row: an adjustment whose own row is
\* not locked can take its lock, whatever locks are held on other rows.
C18_LockPerRow ==
    \A p \in Users :
        (Selecting(p) /\ lock[req[p].product_stock_id] = NULL)
        => ENABLED AdjustStockSelect(p)

\* Two adjustments on two different rows, both holding their lock.
C18_Witness ==
    \E p, q \in Users :
        /\ pc[p] = "as_locked" /\ pc[q] = "as_locked"
        /\ req[p].product_stock_id # req[q].product_stock_id
        /\ lock[req[p].product_stock_id] = p
        /\ lock[req[q].product_stock_id] = q

Waiting(p) == Selecting(p) /\ lock[req[p].product_stock_id] \notin {NULL, p}

\* ---- C19: a caller waiting for the lock of a balance row does not wait
\* forever: it ends up holding the lock, or failed with LockTimeout
\* having changed nothing.
C19_WaitEnds ==
    \A p \in Users :
        Waiting(p) ~> \/ pc[p] = "as_locked" /\ lock[req[p].product_stock_id] = p
                      \/ /\ Done(p) /\ resp[p].error = "LockTimeout"
                         /\ applied[p] = {} /\ EntriesOf(p) = {}

\* A caller blocked on a row whose lock another adjustment holds.
C19_Witness ==
    \E p, q \in Users :
        /\ Waiting(p)
        /\ pc[q] = "as_locked"
        /\ lock[req[p].product_stock_id] = q

Shown(r) == r \in alerts.items

\* ---- C20 as stated: the page reports a product exactly when its balance
\* is at or below its reorder level, for every product with a balance.
C20_EveryProduct ==
    alerts.shown
    => \A r \in StockRows : Shown(r) <=> stock[r] <= reorderLevel[r]

\* ---- C20: the page reports a product exactly when it is a raw material
\* or a master batch and its balance is at or below its reorder level
\* (equality included).
C20_RawAndMasterBatch ==
    alerts.shown
    => \A r \in StockRows :
          Shown(r) <=> /\ ProductType(r) \in {"RAW_MATERIAL", "MASTER_BATCH"}
                       /\ stock[r] <= reorderLevel[r]

\* A raw material reported at equality, a finished good at its level left out.
C20_Witness ==
    /\ alerts.shown
    /\ Shown("rm") /\ stock["rm"] = reorderLevel["rm"]
    /\ ~Shown("fg") /\ stock["fg"] = reorderLevel["fg"]

\* Request p is about to write the balance of a consumption leg whose
\* product no longer has the quantity the leg consumes (the balance it read
\* being the current one).
ShortAtCommit(p) ==
    /\ pc[p] = "pr_update"
    /\ leg[p] \in {2, 3}
    /\ cur[p] = stock[LegProduct(req[p].body, leg[p])]
    /\ stock[LegProduct(req[p].body, leg[p])] + LegChange(req[p].body, leg[p]) < 0

\* ---- C21: insufficient stock found at commit time is handled: when the
\* balance of a consumed product has fallen below the consumption between
\* the pre-flight check and the leg's balance write, the leg is rejected
\* and the balance is not decreased.
C21_RejectedAtCommit ==
    [][\A p \in Users :
          (ShortAtCommit(p) /\ pc'[p] # pc[p])
          => /\ stock' = stock
             /\ pc'[p] = "done"
             /\ resp'[p].status # 201]_vars

\* Leg k of the body is due: it names a product and a quantity.
Due(b, k) == LegProduct(b, k) # NULL /\ LegChange(b, k) # 0

\* The ledger entries request p wrote for leg k of its run.
LegEntries(p, k) ==
    {i \in EntriesOf(p) :
        /\ ledger[i].transaction_source_table = "production_runs"
        /\ ledger[i].product_id = LegProduct(req[p].body, k)}

LegStarted(p, k) ==
    LegEntries(p, k) # {} \/ LegProduct(req[p].body, k) \in applied[p]

LegDone(p, k) ==
    LegEntries(p, k) # {} /\ LegProduct(req[p].body, k) \in applied[p]

\* ---- C22: within one run the legs commit in the order finished-good
\* credit, raw-material debit, master-batch debit: in every state, a leg
\* that has written anything comes after every earlier due leg has its
\* ledger entry and its balance change.
C22_LegsInOrder ==
    \A p \in Users :
        Run(p) => \A j, k \in Legs :
                     (j < k /\ Due(req[p].body, j) /\ LegStarted(p, k)) => LegDone(p, j)

\* A run in flight with its first two legs committed and the third still to come.
C22_Witness ==
    \E p \in Users :
        /\ Run(p) /\ ~Done(p)
        /\ LegDone(p, 1) /\ LegDone(p, 2)
        /\ Due(req[p].body, 3) /\ ~LegStarted(p, 3)

\* Leg k of the body has no quantity or no product reference.
Empty(b, k) == LegProduct(b, k) = NULL \/ LegChange(b, k) = 0

\* Leg k of the body names a product and a positive quantity.
Positive(b, k) ==
    /\ LegProduct(b, k) # NULL
    /\ IF k = 1 THEN LegChange(b, k) > 0 ELSE LegChange(b, k) < 0

\* ---- C23: a leg whose quantity is zero or whose product reference is
\* absent is skipped (no ledger entry, no balance change); no leg writes
\* more than one ledger entry; and in a run that answered success every leg
\* with a product and a positive quantity has exactly one entry, with the
\* leg's change, so the run has one entry per applied leg, at most three.
C23_OneEntryPerLeg ==
    \A p \in Users :
        Run(p) =>
            LET b == req[p].body
            IN /\ \A k \in Legs :
                    /\ Empty(b, k) => ~LegStarted(p, k)
                    /\ Cardinality(LegEntries(p, k)) <= 1
               /\ Succeeded(p) =>
                    /\ \A k \in Legs :
                          Positive(b, k)
                          => /\ LegDone(p, k)
                             /\ \A i \in LegEntries(p, k) :
                                   ledger[i].quantity_change = LegChange(b, k)
                    /\ Cardinality(EntriesOf(p))
                          = Cardinality({k \in Legs : LegDone(p, k)})

\* A successful run with two legs applied and its raw-material leg
\* skipped for a quantity of zero.
C23_Witness ==
    \E p \in Users :
        /\ Run(p) /\ Succeeded(p)
        /\ req[p].body.raw_material_id # NULL
        /\ req[p].body.raw_material_bags_used = 0
        /\ Cardinality(EntriesOf(p)) = 2

\* ---- C24: a production-run creation that submits a negative value for
\* any quantity is rejected in pre-flight, so no persisted production run
\* record holds a negative quantity.
C24_NoNegativeQuantity ==
    \A id \in 1..Len(runs) :
        /\ runs[id].target_quantity >= 0
        /\ runs[id].actual_pieces_produced >= 0
        /\ runs[id].raw_material_bags_used >= 0
        /\ runs[id].master_batch_bags_used >= 0

\* Request p passes validation in this step.
Validated(p) == pc[p] = "idle" /\ pc'[p] \in {"pr_check", "pr_insert"}

\* ---- C25: a production run is persisted only if, at validation, its
\* product exists and is a FINISHED_GOOD, its machine exists and is ACTIVE
\* and its shift is DAY or NIGHT: a request goes past validation only on
\* such a body, and a run record is inserted only by a request that went
\* past validation, with the product, machine and shift of its body.
C25_ValidatedBeforeInsert ==
    [][/\ \A p \in Users :
             Validated(p) =>
                LET b == req'[p].body
                IN /\ b.product_id \in Products
                   /\ ProductType(b.product_id) = "FINISHED_GOOD"
                   /\ b.machine_id \in Machines
                   /\ machineStatus[b.machine_id] = "ACTIVE"
                   /\ b.shift \in {"DAY", "NIGHT"}
       /\ runs' # runs =>
             \E p \in Users :
                /\ pc[p] = "pr_insert"
                /\ Len(runs') = Len(runs) + 1
                /\ SubSeq(runs', 1, Len(runs)) = runs
                /\ runs'[Len(runs')].product_id = req[p].body.product_id
                /\ runs'[Len(runs')].machine_id = req[p].body.machine_id
                /\ runs'[Len(runs')].shift = req[p].body.shift]_vars

\* A run persisted for a machine that was taken out of service after the
\* run's validation.
C25_Witness ==
    \E id \in 1..Len(runs) : machineStatus[runs[id].machine_id] # "ACTIVE"

\* ---- C26: a production-run creation answers success, with the id of
\* the run, only when the run record is persisted and every applicable leg
\* has its ledger entry and its balance change; and it answers with a
\* pre-flight rejection only when nothing has been persisted.
C26_TruthfulAnswer ==
    \A p \in Users :
        (Done(p) /\ req[p].kind = "production-run") =>
            /\ resp[p].status = 201 =>
                  /\ resp[p].run_id \in RunsOf(p)
                  /\ \A k \in Legs :
                        Applicable(runs[resp[p].run_id], k)
                        => LegApplied(p, resp[p].run_id, k)
            /\ resp[p].status = 400 => NothingPersisted(p)

\* A success whose run record calls for all three legs.
C26_Witness ==
    \E p \in Users :
        /\ Done(p) /\ req[p].kind = "production-run" /\ resp[p].status = 201
        /\ \A k \in Legs : Applicable(runs[resp[p].run_id], k)

\* ---- C27: a manual adjustment writes its ledger entry against the
\* product that owns the balance row it changes, and a request whose
\* product_stock_id and product_id do not belong together changes nothing.
C27_EntryMatchesRow ==
    \A p \in Users :
        Manual(p) =>
            /\ \A i \in EntriesOf(p), r \in applied[p] :
                  StockRowFound(r, ledger[i].product_id)
            /\ ~StockRowFound(req[p].product_stock_id, req[p].product_id)
                  => (EntriesOf(p) = {} /\ applied[p] = {})

RecordChange(run, k) ==
    CASE k = 1 -> run.actual_pieces_produced
      [] k = 2 -> 0 - run.raw_material_bags_used
      [] k = 3 -> 0 - run.master_batch_bags_used

\* The ledger entries that reference run id, as product and change.
EntriesOfRun(id) ==
    {<<ledger[i].product_id, ledger[i].quantity_change>> :
        i \in {j \in RunLedger : ledger[j].transaction_id = id}}

\* ---- C28: the persisted run record agrees with the ledger entries that
\* reference it: for a committed run these are exactly +actual pieces on
\* its product, -raw-material bags on its raw material and -master-batch
\* bags on its master batch, as stored in the record (none for a zero
\* quantity or a null reference).
C28_RecordMatchesLedger ==
    \A p \in Users :
        (Run(p) /\ Succeeded(p)) =>
            LET id == resp[p].run_id
            IN EntriesOfRun(id)
                 = {<<RecordProduct(runs[id], k), RecordChange(runs[id], k)>> :
                       k \in {j \in Legs : Applicable(runs[id], j)}}

\* ---- C29: ledger provenance: every ledger entry with source table
\* production_runs carries the id of an existing run record, made by the
\* request that wrote the entry; every entry written by a manual adjustment
\* has source table products_stock and no transaction id (0); and a
\* production run writes entries of the first kind only.
C29_Provenance ==
    /\ \A i \in RunLedger :
          /\ ledger[i].transaction_id \in 1..Len(runs)
          /\ runs[ledger[i].transaction_id].created_by = ledger[i].created_by
    /\ \A p \in Users : \A i \in EntriesOf(p) :
          /\ Manual(p) => /\ ledger[i].transaction_source_table = "products_stock"
                          /\ ledger[i].transaction_id = 0
          /\ Run(p) => i \in RunLedger

\* A run entry and the entry of a manual adjustment in one ledger.
C29_Witness ==
    \E p, q \in Users :
        /\ Run(p) /\ EntriesOf(p) # {}
        /\ Manual(q) /\ EntriesOf(q) # {}

\* The products request p has written to: balance rows and ledger entries.
Touched(p) == applied[p] \cup {ledger[i].product_id : i \in EntriesOf(p)}

\* The products a production-run body names.
Named(b) == {b.product_id, b.raw_material_id, b.master_batch_id} \ {NULL}

Acting(p) == pc[p] \notin {"idle", "done"}

\* ---- C30: operations touch only the products they name: every change
\* of a balance and every new ledger entry is the write of a request in
\* progress, on record for that request; a manual adjustment writes to one
\* product only, a production run to none but its finished good, its raw
\* material and its master batch.
C30_Frame ==
    [][/\ \A r \in StockRows :
             stock'[r] # stock[r] => \E p \in Users : Acting(p) /\ r \in applied'[p]
       /\ ledger' # ledger =>
             \E p \in Users : /\ Acting(p)
                              /\ ledger' = Append(ledger, ledger'[Len(ledger')])
                              /\ ledger'[Len(ledger')].created_by = p
       /\ \A p \in Users :
             /\ Manual(p)' => Cardinality(Touched(p)') <= 1
             /\ (Manual(p) /\ Succeeded(p))' => Cardinality(Touched(p)') = 1
             /\ Run(p)' => Touched(p)' \subseteq Named(req'[p].body)]_vars

====
